---------------------------- MODULE Spec2Model ----------------------------
(***************************************************************************)
(* SceneJS.Quaternion: a scene node holding a quaternion rotation, with a  *)
(* three-level memoisation of its local and composed model-view matrices.  *)
(*                                                                         *)
(* Numbers.  Quaternions are unit Hurwitz quaternions stored as the        *)
(* integer 4-tuple <<2x, 2y, 2z, 2w>> (component order x, y, z, w as in    *)
(* the code's arrays).  Rotations by 120/240 degrees about a (+-1,+-1,+-1) *)
(* axis and by 180 degrees about a coordinate axis stay in this set, their *)
(* products are exact, they do not commute, and their rotation matrices    *)
(* have integer entries.  Matrices are 4x4 tuples of rows.                 *)
(***************************************************************************)
EXTENDS Integers, Sequences, FiniteSets, TLC

(***************************************************************************)
(* Optional values: a JavaScript property that may be absent.              *)
(***************************************************************************)
None == <<>>
Some(v) == <<v>>

\* JavaScript `f || 0` on a numeric-or-absent property
OrZero(f) == IF f = None THEN 0 ELSE f[1]

\* JavaScript truthiness of a numeric-or-absent property
Truthy(f) == f # None /\ f[1] # 0

(***************************************************************************)
(* Quaternion algebra: the SceneJS_math functions the node calls           *)
(***************************************************************************)
SceneJS_math_identityQuaternion == <<0, 0, 0, 2>>

\* NaN, what arithmetic yields on a value that is no number or on 0 / 0; it
\* is kept apart from every number the model computes with
NaN == 0 - 1000

\* some component of the 4-tuple q is NaN
HasNaN(q) == \E i \in 1..4 : q[i] = NaN

\* exact integer square root (defined on perfect squares)
ISqrt(n) == CHOOSE k \in 0..n : k * k = n

\* 4 * sin^2(angle / 2), angle in degrees
Sin2Sq(angle) ==
    CASE angle = 0 -> 0
      [] angle = 120 -> 3
      [] angle = 180 -> 4
      [] angle = 240 -> 3
      [] angle = 360 -> 0

\* 2 * cos(angle / 2), angle in degrees
Cos2(angle) ==
    CASE angle = 0 -> 2
      [] angle = 120 -> 1
      [] angle = 180 -> 0
      [] angle = 240 -> 0 - 1
      [] angle = 360 -> 0 - 2

\* the axis-angle inputs whose quaternion is exactly representable
ExactAxisAngle(x, y, z, angle) ==
    LET len2 == x * x + y * y + z * z
    IN  /\ angle \in {0, 120, 180, 240, 360}
        /\ \/ len2 = 0
           \/ /\ Sin2Sq(angle) % len2 = 0
              /\ \E k \in 0..2 : k * k = Sin2Sq(angle) \div len2

\* a fromAxisAngle that scales by the axis length instead of dividing by it
SceneJS_math_angleAxisQuaternion_misnormalised(x, y, z, angle) ==
    LET len2 == x * x + y * y + z * z
    IN  IF len2 = 0 \/ angle = 0
        THEN SceneJS_math_identityQuaternion
        ELSE LET s == ISqrt(Sin2Sq(angle) \div len2)
             IN  <<x * s * len2, y * s * len2, z * s * len2, Cos2(angle)>>

\* a fromAxisAngle without the guard on a zero axis: it divides 0 by 0
SceneJS_math_angleAxisQuaternion_unguarded(x, y, z, angle) ==
    LET len2 == x * x + y * y + z * z
    IN  IF angle = 0
        THEN SceneJS_math_identityQuaternion
        ELSE IF len2 = 0
             THEN <<NaN, NaN, NaN, Cos2(angle)>>
             ELSE LET s == ISqrt(Sin2Sq(angle) \div len2)
                  IN  <<x * s, y * s, z * s, Cos2(angle)>>

\* fromAxisAngle: axis normalised, zero axis or zero angle gives identity;
\* a NaN angle spoils every component, a NaN axis the vector part
SceneJS_math_angleAxisQuaternion(x, y, z, angle) ==
    IF angle = NaN
    THEN <<NaN, NaN, NaN, NaN>>
    ELSE IF NaN \in {x, y, z}
         THEN <<NaN, NaN, NaN, Cos2(angle)>>
         ELSE LET len2 == x * x + y * y + z * z
              IN  IF len2 = 0 \/ angle = 0
                  THEN SceneJS_math_identityQuaternion
                  ELSE LET s == ISqrt(Sin2Sq(angle) \div len2)   \* 2 sin(angle/2) / |axis|
                       IN  <<x * s, y * s, z * s, Cos2(angle)>>

\* Hamilton product p * q ("apply q first, then p")
SceneJS_math_mulQuaternions(p, q) ==
    IF HasNaN(p) \/ HasNaN(q) THEN <<NaN, NaN, NaN, NaN>> ELSE
    << (p[4] * q[1] + p[1] * q[4] + p[2] * q[3] - p[3] * q[2]) \div 2,
       (p[4] * q[2] + p[2] * q[4] + p[3] * q[1] - p[1] * q[3]) \div 2,
       (p[4] * q[3] + p[3] * q[4] + p[1] * q[2] - p[2] * q[1]) \div 2,
       (p[4] * q[4] - p[1] * q[1] - p[2] * q[2] - p[3] * q[3]) \div 2 >>

\* four times the squared magnitude
Norm2(q) == q[1] * q[1] + q[2] * q[2] + q[3] * q[3] + q[4] * q[4]

\* normalize: rescale to unit length, identity for a zero quaternion
SceneJS_math_normalizeQuaternion(q) ==
    IF HasNaN(q) THEN <<NaN, NaN, NaN, NaN>> ELSE
    IF Norm2(q) = 0
    THEN SceneJS_math_identityQuaternion
    ELSE LET len == ISqrt(Norm2(q))    \* twice the magnitude
         IN  <<(2 * q[1]) \div len, (2 * q[2]) \div len,
               (2 * q[3]) \div len, (2 * q[4]) \div len>>

\* the angle in 0..360 whose half has the cosine w / 2: 2 * acos(w / 2)
AngleOfCos2(w) ==
    CASE w = 2 -> 0
      [] w = 1 -> 120
      [] w = 0 -> 180
      [] w = 0 - 1 -> 240
      [] w = 0 - 2 -> 360

\* a toAxisAngle that returns the axis reversed and the angle as it is
SceneJS_math_angleAxisFromQuaternion_reversingAxis(q, arbitrary) ==
    IF q[1] = 0 /\ q[2] = 0 /\ q[3] = 0
    THEN [x |-> arbitrary[1], y |-> arbitrary[2], z |-> arbitrary[3],
          angle |-> AngleOfCos2(q[4])]
    ELSE [x |-> 0 - q[1], y |-> 0 - q[2], z |-> 0 - q[3], angle |-> AngleOfCos2(q[4])]

\* toAxisAngle: angle = 2 acos(w), axis = (x, y, z) / sin(angle / 2); where
\* the sine is 0 (angle 0 or 360) nothing is divided and the axis is the
\* arbitrary valid one handed in.  The axis is kept as the integer vector of
\* its direction: the unit axis for the 180 degree rotations, the unit axis
\* times sqrt(3) for the 120 and 240 degree ones.
SceneJS_math_angleAxisFromQuaternion(q, arbitrary) ==
    IF q[1] = 0 /\ q[2] = 0 /\ q[3] = 0
    THEN [x |-> arbitrary[1], y |-> arbitrary[2], z |-> arbitrary[3],
          angle |-> AngleOfCos2(q[4])]
    ELSE LET k == IF q[4] = 0 THEN 2 ELSE 1
         IN  [x |-> q[1] \div k, y |-> q[2] \div k, z |-> q[3] \div k,
              angle |-> AngleOfCos2(q[4])]

\* toMatrix: the 4x4 homogeneous rotation matrix of q
SceneJS_math_newMat4FromQuaternion(q) ==
    LET x == q[1]  y == q[2]  z == q[3]  w == q[4]
    IN  IF HasNaN(q)
        THEN << <<NaN, NaN, NaN, 0>>, <<NaN, NaN, NaN, 0>>, <<NaN, NaN, NaN, 0>>,
                <<0, 0, 0, 1>> >>
        ELSE
        << << 1 - (y * y + z * z) \div 2, (x * y - z * w) \div 2, (x * z + y * w) \div 2, 0 >>,
           << (x * y + z * w) \div 2, 1 - (x * x + z * z) \div 2, (y * z - x * w) \div 2, 0 >>,
           << (x * z - y * w) \div 2, (y * z + x * w) \div 2, 1 - (x * x + y * y) \div 2, 0 >>,
           << 0, 0, 0, 1 >> >>

SceneJS_math_identityMat4 ==
    << <<1, 0, 0, 0>>, <<0, 1, 0, 0>>, <<0, 0, 1, 0>>, <<0, 0, 0, 1>> >>

\* matrix product a x b; an entry is NaN when a term of its sum is (a matrix
\* made from a quaternion or by this product holds a NaN only if its first
\* entry is one)
SceneJS_math_mulMat4(a, b) ==
    IF a[1][1] # NaN /\ b[1][1] # NaN
    THEN [i \in 1..4 |-> [j \in 1..4 |->
            a[i][1] * b[1][j] + a[i][2] * b[2][j] + a[i][3] * b[3][j] + a[i][4] * b[4][j]]]
    ELSE [i \in 1..4 |-> [j \in 1..4 |->
            IF \E k \in 1..4 : a[i][k] = NaN \/ b[k][j] = NaN
            THEN NaN
            ELSE a[i][1] * b[1][j] + a[i][2] * b[2][j] + a[i][3] * b[3][j] + a[i][4] * b[4][j]]]


(***************************************************************************)
(* Arguments and configurations                                            *)
(*   an axis-angle argument is [given, x, y, z, angle]: given = FALSE is   *)
(*   an undefined argument, each field is None (absent) or Some(number);   *)
(*   a configuration is [x, y, z, angle, w, rotations] with rotations None *)
(*   or Some(sequence of axis-angle arguments).                            *)
(***************************************************************************)
AxisAngle(x, y, z, angle) ==
    [given |-> TRUE, x |-> x, y |-> y, z |-> z, angle |-> angle]

Undefined ==
    [given |-> FALSE, x |-> None, y |-> None, z |-> None, angle |-> None]

\* a present property holding a string that is no number, such as "abc": it
\* is truthy, so `f || 0` hands it on, and arithmetic reads it as NaN
Text == Some(NaN)

Params(x, y, z, angle, w, rotations) ==
    [x |-> x, y |-> y, z |-> z, angle |-> angle, w |-> w, rotations |-> rotations]

\* the argument object setRotation sees when _init hands it the params
ParamsAsArg(params) ==
    [given |-> TRUE, x |-> params.x, y |-> params.y, z |-> params.z, angle |-> params.angle]

(***************************************************************************)
(* The node.  A node is the record                                         *)
(*   [fixedParams, params, callback, q, memoLevel, mat, xform]             *)
(* with mat and xform None (null) or Some(value).                          *)
(***************************************************************************)

\* a setRotation that composes with the accumulated rotation instead of replacing it
setRotation_accumulating(nd, arg) ==
    [nd EXCEPT !.q = SceneJS_math_mulQuaternions(
                         SceneJS_math_angleAxisQuaternion(
                             OrZero(arg.x), OrZero(arg.y), OrZero(arg.z), OrZero(arg.angle)),
                         nd.q),
               !.memoLevel = 0]

\* setRotation(q): q = q || {}; replace the quaternion; memoLevel = 0
setRotation(nd, arg) ==
    [nd EXCEPT !.q = SceneJS_math_angleAxisQuaternion(
                         OrZero(arg.x), OrZero(arg.y), OrZero(arg.z), OrZero(arg.angle)),
               !.memoLevel = 0]

\* rotate(q) reads q.x first: an undefined q raises a TypeError
rotateThrows(arg) == ~arg.given

\* a rotate with the operands of the product swapped
rotate_rightMultiplying(nd, arg) ==
    [nd EXCEPT !.q = SceneJS_math_mulQuaternions(
                         nd.q,
                         SceneJS_math_angleAxisQuaternion(
                             OrZero(arg.x), OrZero(arg.y), OrZero(arg.z), OrZero(arg.angle))),
               !.memoLevel = 0]

\* a rotate that forgets to reset memoLevel
rotate_keepingMemoLevel(nd, arg) ==
    [nd EXCEPT !.q = SceneJS_math_mulQuaternions(
                         SceneJS_math_angleAxisQuaternion(
                             OrZero(arg.x), OrZero(arg.y), OrZero(arg.z), OrZero(arg.angle)),
                         nd.q)]

\* rotate(q): left-multiply the new rotation onto the quaternion; memoLevel = 0
rotate(nd, arg) ==
    [nd EXCEPT !.q = SceneJS_math_mulQuaternions(
                         SceneJS_math_angleAxisQuaternion(
                             OrZero(arg.x), OrZero(arg.y), OrZero(arg.z), OrZero(arg.angle)),
                         nd.q),
               !.memoLevel = 0]

\* a normalize that divides by the squared magnitude
normalize_bySquaredMagnitude(nd) ==
    [nd EXCEPT !.q = IF Norm2(nd.q) = 0
                     THEN SceneJS_math_identityQuaternion
                     ELSE <<(4 * nd.q[1]) \div Norm2(nd.q), (4 * nd.q[2]) \div Norm2(nd.q),
                            (4 * nd.q[3]) \div Norm2(nd.q), (4 * nd.q[4]) \div Norm2(nd.q)>>,
               !.memoLevel = 0]

\* a normalize that keeps the local matrix marked as computed
normalize_toLevel1(nd) ==
    [nd EXCEPT !.q = SceneJS_math_normalizeQuaternion(nd.q),
               !.memoLevel = IF nd.memoLevel = 0 THEN 0 ELSE 1]

\* a normalize that forgets to reset memoLevel
normalize_keepingMemoLevel(nd) ==
    [nd EXCEPT !.q = SceneJS_math_normalizeQuaternion(nd.q)]

\* normalize(): memoLevel = 0
normalize(nd) ==
    [nd EXCEPT !.q = SceneJS_math_normalizeQuaternion(nd.q),
               !.memoLevel = 0]

\* a getMatrix that hands out the cached local matrix when there is one
getMatrix_cached(nd) ==
    IF nd.mat # None THEN nd.mat[1] ELSE SceneJS_math_newMat4FromQuaternion(nd.q)

\* getMatrix(): the matrix of the current quaternion, computed afresh
getMatrix(nd) == SceneJS_math_newMat4FromQuaternion(nd.q)

\* getRotation(): the axis and angle of the current quaternion, as a
\* {x, y, z, angle} object; the node is left as it is
getRotation(nd, arbitrary) ==
    LET r == SceneJS_math_angleAxisFromQuaternion(nd.q, arbitrary)
    IN  AxisAngle(Some(r.x), Some(r.y), Some(r.z), Some(r.angle))

\* the loop of _init over params.rotations; stops at the first element
\* on which rotate raises, keeping the rotations already applied
RECURSIVE rotateAll(_, _)
rotateAll(nd, rotations) ==
    IF rotations = <<>>
    THEN [node |-> nd, threw |-> FALSE]
    ELSE IF rotateThrows(Head(rotations))
         THEN [node |-> nd, threw |-> TRUE]
         ELSE rotateAll(rotate(nd, Head(rotations)), Tail(rotations))

\* the guard of _init's setRotation call: it tests params.x twice and never params.z
initSetsRotation(params) ==
    Truthy(params.x) \/ Truthy(params.y) \/ Truthy(params.x)
        \/ Truthy(params.angle) \/ Truthy(params.w)

\* an _init that applies the rotations list before the base rotation
init_rotationsFirst(nd, params) ==
    LET r == IF params.rotations = None
             THEN [node |-> nd, threw |-> FALSE]
             ELSE rotateAll(nd, params.rotations[1])
    IN  IF ~r.threw /\ initSetsRotation(params)
        THEN [node |-> setRotation(r.node, ParamsAsArg(params)), threw |-> FALSE]
        ELSE r

\* _init(params)
init(nd, params) ==
    LET base == IF initSetsRotation(params)
                THEN setRotation(nd, ParamsAsArg(params))
                ELSE nd
    IN  IF params.rotations = None
        THEN [node |-> base, threw |-> FALSE]
        ELSE rotateAll(base, params.rotations[1])

\* _getParams(data): the static params, or the callback applied to the render data
getParams(nd, data) ==
    IF nd.fixedParams
    THEN nd.params
    ELSE IF nd.callback = "rotations"
         THEN Params(None, None, None, None, None, data.rotations)
         ELSE data

\* a constructor that leaves a static node at memoLevel 1
Quaternion_startingAtLevel1(fixed, params, callback) ==
    LET base == [fixedParams |-> fixed, params |-> params, callback |-> callback,
                 q |-> SceneJS_math_identityQuaternion,
                 memoLevel |-> 0, mat |-> None, xform |-> None]
        r == init(base, params)
    IN  IF fixed
        THEN [node |-> [r.node EXCEPT !.memoLevel = 1], threw |-> r.threw]
        ELSE [node |-> base, threw |-> FALSE]

\* new SceneJS.Quaternion(cfg | fn): SceneJS.Node sets fixedParams, the params
\* or the callback and memoLevel 0; then _mat = _xform = null, identity
\* quaternion, and _init for a static configuration
Quaternion(fixed, params, callback) ==
    LET base == [fixedParams |-> fixed, params |-> params, callback |-> callback,
                 q |-> SceneJS_math_identityQuaternion,
                 memoLevel |-> 0, mat |-> None, xform |-> None]
    IN  IF fixed THEN init(base, params) ELSE [node |-> base, threw |-> FALSE]


\* a factory whose second constructor run keeps the quaternion of the first
\* and is followed by a further _init
quaternion_initTwice(fixed, params, callback) ==
    LET n == Quaternion(fixed, params, callback)
    IN  IF fixed /\ ~n.threw THEN init(n.node, params) ELSE n

\* SceneJS.quaternion(args): n = new SceneJS.Quaternion(), a node with no
\* configuration; then the constructor is applied to n with the arguments:
\* SceneJS.Node takes the configuration or the callback from them, lines
\* 77-79 reset _mat, _xform and the quaternion, and _init runs for a static
\* configuration
quaternion(fixed, params, callback) ==
    LET n == Quaternion(TRUE, Params(None, None, None, None, None, None), "none").node
        again == [n EXCEPT !.fixedParams = fixed, !.params = params,
                           !.callback = callback,
                           !.mat = None, !.xform = None,
                           !.q = SceneJS_math_identityQuaternion]
    IN  IF fixed THEN init(again, params) ELSE [node |-> again, threw |-> FALSE]


(***************************************************************************)
(* The second revision of the node (part_001).  Its setRotation takes an   *)
(* argument [given, x, y, z, angle, w], its configuration has a nested q:  *)
(* [x, y, z, angle, w, rotations, q] with q None or Some(argument).        *)
(***************************************************************************)
AxisAngleW(x, y, z, angle, w) ==
    [given |-> TRUE, x |-> x, y |-> y, z |-> z, angle |-> angle, w |-> w]

ParamsQ(x, y, z, angle, rotations, q) ==
    [x |-> x, y |-> y, z |-> z, angle |-> angle, w |-> None,
     rotations |-> rotations, q |-> q]

\* a setRotation of part_001 that returns at once when q.w is defined
part001_setRotation_returningOnW(nd, arg) ==
    IF arg.given /\ arg.w # None
    THEN nd
    ELSE [nd EXCEPT !.q = SceneJS_math_angleAxisQuaternion(
                              OrZero(arg.x), OrZero(arg.y), OrZero(arg.z),
                              IF arg.angle = None THEN NaN ELSE arg.angle[1]),
                    !.memoLevel = 0]

\* setRotation(q) of part_001: with q.w defined nothing is assigned; else
\* the angle is handed on as it is, an absent angle as undefined (NaN in
\* arithmetic); memoLevel = 0
part001_setRotation(nd, arg) ==
    [nd EXCEPT !.q = IF arg.given /\ arg.w # None
                     THEN @
                     ELSE SceneJS_math_angleAxisQuaternion(
                              OrZero(arg.x), OrZero(arg.y), OrZero(arg.z),
                              IF arg.angle = None THEN NaN ELSE arg.angle[1]),
               !.memoLevel = 0]

\* _init(params) of part_001: the base rotation is read from params.q only
part001_init(nd, params) ==
    LET base == IF params.q # None
                THEN part001_setRotation(nd, params.q[1])
                ELSE nd
    IN  IF params.rotations = None
        THEN [node |-> base, threw |-> FALSE]
        ELSE rotateAll(base, params.rotations[1])

\* new SceneJS.Quaternion(cfg) of part_001, cfg a static configuration
part001_Quaternion(params) ==
    part001_init([fixedParams |-> TRUE, params |-> params, callback |-> "none",
                  q |-> SceneJS_math_identityQuaternion,
                  memoLevel |-> 0, mat |-> None, xform |-> None],
                 params)


(***************************************************************************)
(* The render step of one node, up to the recursion into its children      *)
(***************************************************************************)

\* what getTransform() exposes of a transform: {matrix, fixed}
Transform(matrix, fixed) == [matrix |-> matrix, fixed |-> fixed]

\* a local step that resets a dynamic node's quaternion before re-configuring
renderLocal_resetting(nd, data) ==
    IF nd.memoLevel # 0
    THEN [node |-> nd, threw |-> FALSE]
    ELSE LET r == IF ~nd.fixedParams
                  THEN init([nd EXCEPT !.q = SceneJS_math_identityQuaternion],
                            getParams(nd, data))
                  ELSE [node |-> [nd EXCEPT !.memoLevel = 1], threw |-> FALSE]
         IN  IF r.threw
             THEN r
             ELSE [node |-> [r.node EXCEPT
                       !.mat = Some(SceneJS_math_newMat4FromQuaternion(r.node.q))],
                   threw |-> FALSE]

\* a local step that re-applies a static configuration as well
renderLocal_reconfiguringStatic(nd, data) ==
    IF nd.memoLevel # 0
    THEN [node |-> nd, threw |-> FALSE]
    ELSE LET r == IF ~nd.fixedParams
                  THEN init(nd, getParams(nd, data))
                  ELSE init([nd EXCEPT !.memoLevel = 1], getParams(nd, data))
         IN  IF r.threw
             THEN r
             ELSE [node |-> [r.node EXCEPT
                       !.mat = Some(SceneJS_math_newMat4FromQuaternion(r.node.q))],
                   threw |-> FALSE]

\* a local step that marks level 1 for a dynamic node as well
renderLocal_markingDynamic(nd, data) ==
    IF nd.memoLevel # 0
    THEN [node |-> nd, threw |-> FALSE]
    ELSE LET r == IF ~nd.fixedParams
                  THEN init(nd, getParams(nd, data))
                  ELSE [node |-> nd, threw |-> FALSE]
         IN  IF r.threw
             THEN r
             ELSE [node |-> [r.node EXCEPT
                       !.memoLevel = 1,
                       !.mat = Some(SceneJS_math_newMat4FromQuaternion(r.node.q))],
                   threw |-> FALSE]

\* a local step that computes the local matrix only while there is none
renderLocal_keepingMatrix(nd, data) ==
    IF nd.memoLevel # 0
    THEN [node |-> nd, threw |-> FALSE]
    ELSE LET r == IF ~nd.fixedParams
                  THEN init(nd, getParams(nd, data))
                  ELSE [node |-> [nd EXCEPT !.memoLevel = 1], threw |-> FALSE]
         IN  IF r.threw
             THEN r
             ELSE [node |-> [r.node EXCEPT
                       !.mat = IF nd.mat = None
                               THEN Some(SceneJS_math_newMat4FromQuaternion(r.node.q))
                               ELSE nd.mat],
                   threw |-> FALSE]

\* if (memoLevel == 0) { re-evaluate a dynamic configuration, or mark
\* level 1; recompute the local matrix }
renderLocal(nd, data) ==
    IF nd.memoLevel # 0
    THEN [node |-> nd, threw |-> FALSE]
    ELSE LET r == IF ~nd.fixedParams
                  THEN init(nd, getParams(nd, data))
                  ELSE [node |-> [nd EXCEPT !.memoLevel = 1], threw |-> FALSE]
         IN  IF r.threw
             THEN r
             ELSE [node |-> [r.node EXCEPT
                       !.mat = Some(SceneJS_math_newMat4FromQuaternion(r.node.q))],
                   threw |-> FALSE]

\* a promotion test that does not consult instancing
promotes_ignoringInstancing(nd, superXform, instancing) ==
    nd.memoLevel = 1 /\ superXform.fixed

\* a promotion test that does not consult the ambient fixed flag
promotes_ignoringAmbient(nd, superXform, instancing) ==
    nd.memoLevel = 1 /\ ~instancing

\* the promotion test: memoLevel == 1 && superXform.fixed && !instancing
promotes(nd, superXform, instancing) ==
    nd.memoLevel = 1 /\ superXform.fixed /\ ~instancing

\* a compose step that recomputes only what no visit has computed yet
renderCompose_onceComputed(nd, superXform, instancing) ==
    IF nd.memoLevel < 2 /\ (nd.memoLevel = 0 \/ nd.xform = None)
    THEN [nd EXCEPT
            !.xform = Some([localMatrix |-> nd.mat[1],
                            matrix |-> SceneJS_math_mulMat4(superXform.matrix, nd.mat[1]),
                            fixed |-> superXform.fixed /\ nd.fixedParams /\ ~instancing]),
            !.memoLevel = IF promotes(nd, superXform, instancing) THEN 2 ELSE nd.memoLevel]
    ELSE nd

\* a compose step that at level 2 still recomputes the fixed flag
renderCompose_refreshingFixed(nd, superXform, instancing) ==
    IF nd.memoLevel < 2
    THEN [nd EXCEPT
            !.xform = Some([localMatrix |-> nd.mat[1],
                            matrix |-> SceneJS_math_mulMat4(superXform.matrix, nd.mat[1]),
                            fixed |-> superXform.fixed /\ nd.fixedParams /\ ~instancing]),
            !.memoLevel = IF promotes(nd, superXform, instancing) THEN 2 ELSE nd.memoLevel]
    ELSE [nd EXCEPT
            !.xform = Some([nd.xform[1] EXCEPT
                               !.fixed = superXform.fixed /\ nd.fixedParams /\ ~instancing])]

\* a compose step whose fixed flag leaves out fixedParams
renderCompose_fixedFromAmbient(nd, superXform, instancing) ==
    IF nd.memoLevel < 2
    THEN [nd EXCEPT
            !.xform = Some([localMatrix |-> nd.mat[1],
                            matrix |-> SceneJS_math_mulMat4(superXform.matrix, nd.mat[1]),
                            fixed |-> superXform.fixed /\ ~instancing]),
            !.memoLevel = IF promotes(nd, superXform, instancing) THEN 2 ELSE nd.memoLevel]
    ELSE nd

\* a compose step that takes a level-2 node back to level 1 when the ambient
\* is not fixed or instancing is active
renderCompose_demoting(nd, superXform, instancing) ==
    IF nd.memoLevel < 2 \/ ~superXform.fixed \/ instancing
    THEN [nd EXCEPT
            !.xform = Some([localMatrix |-> nd.mat[1],
                            matrix |-> SceneJS_math_mulMat4(superXform.matrix, nd.mat[1]),
                            fixed |-> superXform.fixed /\ nd.fixedParams /\ ~instancing]),
            !.memoLevel = IF promotes(nd, superXform, instancing) THEN 2
                          ELSE IF nd.memoLevel = 2 THEN 1 ELSE nd.memoLevel]
    ELSE nd

\* if (memoLevel < 2) { recompute the composed transform; maybe promote }
renderCompose(nd, superXform, instancing) ==
    IF nd.memoLevel < 2
    THEN [nd EXCEPT
            !.xform = Some([localMatrix |-> nd.mat[1],
                            matrix |-> SceneJS_math_mulMat4(superXform.matrix, nd.mat[1]),
                            fixed |-> superXform.fixed /\ nd.fixedParams /\ ~instancing]),
            !.memoLevel = IF promotes(nd, superXform, instancing) THEN 2 ELSE nd.memoLevel]
    ELSE nd

\* _render up to setTransform(this._xform): the node afterwards, whether the
\* configuration callback's rotations raised, and the transform published
render(nd, superXform, instancing, data) ==
    LET l == renderLocal(nd, data)
    IN  IF l.threw
        THEN [node |-> l.node, threw |-> TRUE, published |-> superXform]
        ELSE LET c == renderCompose(l.node, superXform, instancing)
             IN  [node |-> c, threw |-> FALSE,
                  published |-> Transform(c.xform[1].matrix, c.xform[1].fixed)]


(***************************************************************************)
(* Bounds and input sets                                                   *)
(***************************************************************************)
NumNodes == 3
MaxRenders == 2
MaxMutations == 1
MaxCalls == 2

MaxScale == 3

Nodes == 1..NumNodes
Root == 1

\* the scene: node n has the children 2n and 2n+1 that exist, in this order
children(n) == SelectSeq(<<2 * n, 2 * n + 1>>, LAMBDA c : c \in Nodes)

RX == AxisAngle(Some(1), None, None, Some(180))               \* 180 about X
RZ == AxisAngle(None, None, Some(1), Some(180))               \* 180 about Z
RD == AxisAngle(Some(1), Some(1), Some(1), Some(120))         \* 120 about (1,1,1)
Empty == AxisAngle(None, None, None, None)                    \* {}
Degenerate == AxisAngle(Some(0), Some(0), Some(0), Some(180)) \* zero axis, 180
RX2 == AxisAngle(Some(2), None, None, Some(180))              \* 180 about (2,0,0)
TextAxis == AxisAngle(Text, None, None, Some(180))            \* {x: "abc", angle: 180}
TextAngle == AxisAngle(None, None, Some(1), Text)             \* {z: 1, angle: "abc"}

NoParams == Params(None, None, None, None, None, None)

\* static configurations
BaseOnly == Params(Some(1), None, None, Some(180), None, None)
RotationsOnIdentity == Params(Some(0), Some(0), Some(0), Some(0), None, Some(<<RZ, RD>>))
BaseAndRotations == Params(None, None, Some(1), Some(180), None, Some(<<RX>>))

DegenerateBase == Params(Some(0), Some(0), Some(0), Some(180), None, Some(<<RX>>))

StaticParams ==
    {NoParams, BaseOnly, RotationsOnIdentity, BaseAndRotations, DegenerateBase}

\* the data a render call injects (what the callback's data.get sees)
RenderData ==
    { Params(None, None, None, None, None, Some(<<RX, RD>>)),
      Params(None, None, None, None, None, Some(<<RD, Undefined>>)),
      Params(Some(1), None, None, Some(180), None, Some(<<RD>>)),
      Params(None, None, Some(1), Some(0), None, Some(<<RZ>>)) }

\* no render call in progress
NoData == NoParams

\* "rotations": function(data) { return { rotations: data.get("rotations") } }
\* "all": the callback returns base fields and rotations
Callbacks == {"rotations", "all"}

\* which nodes are statically configured
AllStatic == [n \in Nodes |-> TRUE]
DynamicRoot == [n \in Nodes |-> n # Root]
DynamicChild == [n \in Nodes |-> n # 2]

Scene(layout, params, callback) ==
    [layout |-> layout, params |-> params, callback |-> callback]

\* the scenes the mutators are called on: a layout, one configuration shared
\* by the static nodes, one callback shared by the dynamic nodes
Scenes ==
    { Scene(l, p, c) : l \in {AllStatic, DynamicRoot},
                       p \in StaticParams, c \in Callbacks }

\* the scenes that are rendered
RenderedScenes ==
    { Scene(AllStatic, BaseOnly, "rotations"),
      Scene(AllStatic, RotationsOnIdentity, "rotations"),
      Scene(DynamicRoot, BaseOnly, "all"),
      Scene(DynamicChild, BaseOnly, "rotations") }

\* mutator arguments
SetRotationArgs == {Undefined, Empty, RZ, Degenerate, RX2}
RotateArgs == {RX, RD, Degenerate}

\* a static configuration with a non-numeric base field: {x: "abc", angle: 180}
MalformedBase == Params(Text, None, None, Some(180), None, None)

\* scenes and mutator arguments with malformed or missing values among them
MalformedScenes ==
    { Scene(l, p, "rotations") : l \in {AllStatic, DynamicRoot},
                                 p \in {BaseOnly, MalformedBase} }
MalformedSetRotationArgs == {TextAxis, RZ}
MalformedRotateArgs == {TextAngle, Undefined, RD}

\* the unit quaternions with integer stored components
UnitQuaternions ==
    { q \in (0 - 2..2) \X (0 - 2..2) \X (0 - 2..2) \X (0 - 2..2) : Norm2(q) = 4 }

\* quaternions off unit length, as rounding over many rotate calls leaves
\* them: a unit quaternion times a magnitude 1..MaxScale
NonZeroQuaternions ==
    { <<k * q[1], k * q[2], k * q[3], k * q[4]>> : q \in UnitQuaternions, k \in 1..MaxScale }

\* axis-angle arguments with a non-zero axis, of unit length or not, by every
\* angle, some fields absent; and one with a zero axis
R240 == AxisAngle(Some(1), Some(1), Some(1), Some(240))       \* 240 about (1,1,1)
RD2 == AxisAngle(Some(0 - 1), Some(1), Some(0 - 1), Some(120)) \* 120 about (-1,1,-1)
RY360 == AxisAngle(None, Some(1), None, Some(360))            \* 360 about Y
RY0 == AxisAngle(None, Some(1), None, None)                   \* {y: 1}
RoundTripArgs == {RZ, RX2, RD, RD2, R240, RY360, RY0, Degenerate}

\* the axes toAxisAngle may return for a rotation by 0 or 360 degrees
ArbitraryAxes == {<<1, 0, 0>>, <<0, 0, 1>>}

\* static configurations given to the part_001 revision: the base rotation
\* as top-level fields (as in its Example 1), as a nested q, and none
Part001Params ==
    { ParamsQ(Some(1), None, None, Some(180), None, None),
      ParamsQ(None, None, Some(1), Some(180), Some(<<RX>>), None),
      ParamsQ(Some(0), Some(0), Some(0), Some(0), Some(<<RZ, RD>>), None),
      ParamsQ(None, None, None, None, Some(<<RD>>),
              Some(AxisAngleW(Some(1), None, None, Some(180), None))),
      ParamsQ(None, None, None, None, None, None) }

\* setRotation arguments given to the part_001 revision
Part001SetRotationArgs ==
    { AxisAngleW(None, None, Some(1), Some(180), None),
      AxisAngleW(Some(1), Some(1), Some(1), Some(120), None),
      AxisAngleW(Some(1), None, None, None, Some(0)) }

\* mutator arguments used between render calls
RenderedSetRotationArgs == {RZ}
RenderedRotateArgs == {RD}

(***************************************************************************)
(* State                                                                   *)
(***************************************************************************)
VARIABLES
    node,        \* node[n]: the fields of node n
    modelView,   \* SceneJS_modelViewTransformModule: the current {matrix, fixed}
    frames,      \* the _render activations in progress, innermost last:
                 \*   [node, superXform, next] with next the index of the next child
    pc,          \* "idle", "render" (inside a traversal), "raise" (an error is
                 \*   propagating), "failed" (idle, the last render call raised)
    data,        \* the data of the render call in progress
    instancing,  \* what SceneJS_instancingModule.instancing() answers during the
                 \*   traversal in progress: whether this pass over the subtree
                 \*   is made through an instance node
    log,         \* the mutator calls made so far: [op, node, arg]
    nrender      \* render calls started

vars == <<node, modelView, frames, pc, data, instancing, log, nrender>>

Top == frames[Len(frames)]

\* the ambient transform the enclosing scene has installed when its traversal
\* reaches the root quaternion node: no transform above it, fixed
SceneTransform == Transform(SceneJS_math_identityMat4, TRUE)

\* the state once the nodes of one of the scenes are constructed
Constructing(scenes) ==
    /\ \E s \in scenes :
          node = [n \in Nodes |->
                     Quaternion(s.layout[n],
                                IF s.layout[n] THEN s.params ELSE NoParams,
                                IF s.layout[n] THEN "none" ELSE s.callback).node]
    /\ modelView = SceneTransform
    /\ frames = <<>>
    /\ pc = "idle"
    /\ data = NoData
    /\ instancing = FALSE
    /\ log = <<>>
    /\ nrender = 0

Init == Constructing(RenderedScenes)

InitCalls == Constructing(Scenes)

InitMalformed == Constructing(MalformedScenes)

\* every node of an all-static scene holds the same non-zero quaternion
InitNormalize ==
    /\ \E q0 \in NonZeroQuaternions :
          node = [n \in Nodes |->
                     [Quaternion(TRUE, NoParams, "none").node EXCEPT !.q = q0]]
    /\ modelView = SceneTransform
    /\ frames = <<>>
    /\ pc = "idle"
    /\ data = NoData
    /\ instancing = FALSE
    /\ log = <<>>
    /\ nrender = 0


\* the nodes of a scene of the part_001 revision, all with one static configuration
InitPart001 ==
    /\ \E p \in Part001Params : node = [n \in Nodes |-> part001_Quaternion(p).node]
    /\ modelView = SceneTransform
    /\ frames = <<>>
    /\ pc = "idle"
    /\ data = NoData
    /\ instancing = FALSE
    /\ log = <<>>
    /\ nrender = 0


\* the state once the nodes of one of the scenes are made by the factory
InitFactory ==
    /\ \E s \in Scenes :
          node = [n \in Nodes |->
                     quaternion(s.layout[n],
                                IF s.layout[n] THEN s.params ELSE NoParams,
                                IF s.layout[n] THEN "none" ELSE s.callback).node]
    /\ modelView = SceneTransform
    /\ frames = <<>>
    /\ pc = "idle"
    /\ data = NoData
    /\ instancing = FALSE
    /\ log = <<>>
    /\ nrender = 0


(***************************************************************************)
(* The mutators, called by the application between render calls; bound is  *)
(* the number of calls explored.  The log keeps each call and whether it   *)
(* raised an error to its caller.                                          *)
(***************************************************************************)
Quiet == pc \in {"idle", "failed"}

\* a setRotation that also marks the caches of the node's children dirty
SetRotation_invalidatingChildren(n, arg, bound) ==
    /\ Quiet
    /\ Len(log) < bound
    /\ node' = [m \in Nodes |->
                   IF m = n THEN setRotation(node[m], arg)
                   ELSE IF m \div 2 = n THEN [node[m] EXCEPT !.memoLevel = 0]
                   ELSE node[m]]
    /\ log' = Append(log, [op |-> "setRotation", node |-> n, arg |-> arg,
                            threw |-> FALSE])
    /\ UNCHANGED <<modelView, frames, pc, data, instancing, nrender>>

SetRotation(n, arg, bound) ==
    /\ Quiet
    /\ Len(log) < bound
    /\ node' = [node EXCEPT ![n] = setRotation(@, arg)]
    /\ log' = Append(log, [op |-> "setRotation", node |-> n, arg |-> arg,
                            threw |-> FALSE])
    /\ UNCHANGED <<modelView, frames, pc, data, instancing, nrender>>

Rotate(n, arg, bound) ==
    /\ Quiet
    /\ Len(log) < bound
    /\ node' = [node EXCEPT ![n] = IF rotateThrows(arg) THEN @ ELSE rotate(@, arg)]
    /\ log' = Append(log, [op |-> "rotate", node |-> n, arg |-> arg,
                            threw |-> rotateThrows(arg)])
    /\ UNCHANGED <<modelView, frames, pc, data, instancing, nrender>>

Normalize(n, bound) ==
    /\ Quiet
    /\ Len(log) < bound
    /\ node' = [node EXCEPT ![n] = normalize(@)]
    /\ log' = Append(log, [op |-> "normalize", node |-> n, arg |-> Empty,
                            threw |-> FALSE])
    /\ UNCHANGED <<modelView, frames, pc, data, instancing, nrender>>

\* the application reads the rotation back; the log keeps what was returned,
\* arbitrary being the axis returned where the rotation has none
GetRotation(n, arbitrary, bound) ==
    /\ Quiet
    /\ Len(log) < bound
    /\ log' = Append(log, [op |-> "getRotation", node |-> n,
                            arg |-> getRotation(node[n], arbitrary), threw |-> FALSE])
    /\ UNCHANGED <<node, modelView, frames, pc, data, instancing, nrender>>

\* setRotation of the part_001 revision
Part001SetRotation(n, arg, bound) ==
    /\ Quiet
    /\ Len(log) < bound
    /\ node' = [node EXCEPT ![n] = part001_setRotation(@, arg)]
    /\ log' = Append(log, [op |-> "setRotation", node |-> n, arg |-> arg,
                            threw |-> FALSE])
    /\ UNCHANGED <<modelView, frames, pc, data, instancing, nrender>>

\* the application reads the matrix; the log keeps what was returned
GetMatrix(n, bound) ==
    /\ Quiet
    /\ Len(log) < bound
    /\ log' = Append(log, [op |-> "getMatrix", node |-> n,
                            arg |-> getMatrix(node[n]), threw |-> FALSE])
    /\ UNCHANGED <<node, modelView, frames, pc, data, instancing, nrender>>

(***************************************************************************)
(* The traversal                                                           *)
(***************************************************************************)

\* n._render(traversalContext, d) is called with the activations fs above it:
\* lines 206-227, then either the error leaves _render or the activation
\* waits in _renderNodes
Enter(n, fs, superXform, d, inst) ==
    LET r == render(node[n], superXform, inst, d)
    IN  /\ node' = [node EXCEPT ![n] = r.node]
        /\ IF r.threw
           THEN /\ modelView' = superXform
                /\ frames' = fs
                /\ pc' = IF fs = <<>> THEN "failed" ELSE "raise"
                /\ data' = IF fs = <<>> THEN NoData ELSE d
                /\ instancing' = IF fs = <<>> THEN FALSE ELSE inst
           ELSE /\ modelView' = r.published
                /\ frames' = Append(fs, [node |-> n, superXform |-> superXform, next |-> 1])
                /\ pc' = "render"
                /\ data' = d
                /\ instancing' = inst

\* a render call that may start while a traversal is in flight (from a
\* configuration callback or a second thread of control)
StartRender_reentrant(d, inst) ==
    /\ pc # "raise"
    /\ nrender < MaxRenders
    /\ nrender' = nrender + 1
    /\ Enter(Root, frames, IF frames = <<>> THEN SceneTransform ELSE modelView, d, inst)
    /\ UNCHANGED log

\* scene.render(d), called from the page's script or an event handler once
\* the previous call has returned or raised; the traversal reaches the root
\* under the scene's transform
StartRender(d, inst) ==
    /\ Quiet
    /\ nrender < MaxRenders
    /\ nrender' = nrender + 1
    /\ Enter(Root, <<>>, SceneTransform, d, inst)
    /\ UNCHANGED log

\* _renderNodes calls the next child's _render
RenderChild ==
    /\ pc = "render"
    /\ Top.next <= Len(children(Top.node))
    /\ Enter(children(Top.node)[Top.next],
             [frames EXCEPT ![Len(frames)].next = @ + 1], modelView, data, instancing)
    /\ UNCHANGED <<log, nrender>>

\* a return that leaves the node's own transform on the Matrix Stack
Return_withoutRestore ==
    /\ pc = "render"
    /\ Top.next > Len(children(Top.node))
    /\ frames' = SubSeq(frames, 1, Len(frames) - 1)
    /\ pc' = IF Len(frames) = 1 THEN "idle" ELSE "render"
    /\ data' = IF Len(frames) = 1 THEN NoData ELSE data
    /\ instancing' = IF Len(frames) = 1 THEN FALSE ELSE instancing
    /\ UNCHANGED <<node, modelView, log, nrender>>

\* a return that resets the Matrix Stack to the scene's transform
Return_resettingToScene ==
    /\ pc = "render"
    /\ Top.next > Len(children(Top.node))
    /\ modelView' = SceneTransform
    /\ frames' = SubSeq(frames, 1, Len(frames) - 1)
    /\ pc' = IF Len(frames) = 1 THEN "idle" ELSE "render"
    /\ data' = IF Len(frames) = 1 THEN NoData ELSE data
    /\ instancing' = IF Len(frames) = 1 THEN FALSE ELSE instancing
    /\ UNCHANGED <<node, log, nrender>>

\* _renderNodes returns; setTransform(superXform); _render returns
Return ==
    /\ pc = "render"
    /\ Top.next > Len(children(Top.node))
    /\ modelView' = Top.superXform
    /\ frames' = SubSeq(frames, 1, Len(frames) - 1)
    /\ pc' = IF Len(frames) = 1 THEN "idle" ELSE "render"
    /\ data' = IF Len(frames) = 1 THEN NoData ELSE data
    /\ instancing' = IF Len(frames) = 1 THEN FALSE ELSE instancing
    /\ UNCHANGED <<node, log, nrender>>

\* an error raised under _renderNodes leaves the innermost _render: there is
\* no try/finally, so line 229 is skipped
Propagate ==
    /\ pc = "raise"
    /\ frames' = SubSeq(frames, 1, Len(frames) - 1)
    /\ pc' = IF Len(frames) = 1 THEN "failed" ELSE "raise"
    /\ data' = IF Len(frames) = 1 THEN NoData ELSE data
    /\ instancing' = IF Len(frames) = 1 THEN FALSE ELSE instancing
    /\ UNCHANGED <<node, modelView, log, nrender>>

Next ==
    \/ \E n \in Nodes, arg \in RenderedSetRotationArgs : SetRotation(n, arg, MaxMutations)
    \/ \E n \in Nodes, arg \in RenderedRotateArgs : Rotate(n, arg, MaxMutations)
    \/ \E n \in Nodes : Normalize(n, MaxMutations)
    \/ \E d \in RenderData, inst \in BOOLEAN : StartRender(d, inst)
    \/ RenderChild
    \/ Return
    \/ Propagate

Spec == Init /\ [][Next]_vars

\* the application constructs the scene and calls mutators, without rendering
NextCalls ==
    \/ \E n \in Nodes, arg \in SetRotationArgs : SetRotation(n, arg, MaxCalls)
    \/ \E n \in Nodes, arg \in RotateArgs : Rotate(n, arg, MaxCalls)
    \/ \E n \in Nodes : Normalize(n, MaxCalls)

SpecCalls == InitCalls /\ [][NextCalls]_vars

\* the application constructs a scene and calls mutators, some of the
\* configuration values and arguments being malformed or missing
NextMalformed ==
    \/ \E n \in Nodes, arg \in MalformedSetRotationArgs : SetRotation(n, arg, MaxCalls)
    \/ \E n \in Nodes, arg \in MalformedRotateArgs : Rotate(n, arg, MaxCalls)

SpecMalformed == InitMalformed /\ [][NextMalformed]_vars

\* the application calls normalize on nodes whose quaternion is off unit length
NextNormalize == \E n \in Nodes : Normalize(n, MaxCalls)

SpecNormalize == InitNormalize /\ [][NextNormalize]_vars

\* the application sets rotations and reads them back
NextRoundTrip ==
    \/ \E n \in Nodes, arg \in RoundTripArgs : SetRotation(n, arg, MaxCalls)
    \/ \E n \in Nodes, a \in ArbitraryAxes : GetRotation(n, a, MaxCalls)

SpecRoundTrip == Init /\ [][NextRoundTrip]_vars

\* the application constructs a scene of the part_001 revision, calls its
\* mutators and renders it (its rotate and its _render are those of the
\* first revision; its nodes being static, no render data is read)
NextPart001 ==
    \/ \E n \in Nodes, arg \in Part001SetRotationArgs : Part001SetRotation(n, arg, MaxMutations)
    \/ \E n \in Nodes, arg \in RotateArgs : Rotate(n, arg, MaxMutations)
    \/ StartRender(NoData, FALSE)
    \/ RenderChild
    \/ Return

SpecPart001 == InitPart001 /\ [][NextPart001]_vars

\* the application renders, calls a mutator and reads the rotation and the
\* matrix back, between render calls; the data injected lets every
\* configuration callback succeed
InitGetters ==
    Constructing({Scene(AllStatic, BaseOnly, "rotations"),
                  Scene(DynamicRoot, BaseOnly, "all")})

NextGetters ==
    \/ \E n \in Nodes, arg \in RenderedSetRotationArgs : SetRotation(n, arg, MaxMutations)
    \/ \E n \in Nodes, arg \in RenderedRotateArgs : Rotate(n, arg, MaxMutations)
    \/ \E n \in Nodes : GetMatrix(n, MaxMutations + 1)
    \/ \E n \in Nodes : GetRotation(n, <<1, 0, 0>>, MaxMutations + 1)
    \/ StartRender(Params(None, None, None, None, None, Some(<<RX, RD>>)), FALSE)
    \/ RenderChild
    \/ Return

SpecGetters == InitGetters /\ [][NextGetters]_vars

\* the application makes the scene's nodes by the factory and calls mutators
SpecFactory == InitFactory /\ [][NextCalls]_vars

\* every pass over the subtree is made through an instance node:
\* instancing() answers true on every visit
NextInstancing ==
    \/ \E n \in Nodes, arg \in RenderedSetRotationArgs : SetRotation(n, arg, MaxMutations)
    \/ \E n \in Nodes, arg \in RenderedRotateArgs : Rotate(n, arg, MaxMutations)
    \/ \E n \in Nodes : Normalize(n, MaxMutations)
    \/ \E d \in RenderData : StartRender(d, TRUE)
    \/ RenderChild
    \/ Return
    \/ Propagate

SpecInstancing == Init /\ [][NextInstancing]_vars


(***************************************************************************)
(* Properties                                                              *)
(***************************************************************************)

\* a node has just published: its activation is innermost and no child has
\* been entered yet
JustPublished == pc = "render" /\ Top.next = 1

\* ambient x toMatrix(q), computed from scratch
Fresh(superXform, q) ==
    SceneJS_math_mulMat4(superXform.matrix, SceneJS_math_newMat4FromQuaternion(q))

\* C1: on every render visit the matrix a node publishes is the ambient matrix
\* read on that visit times the matrix of the node's current quaternion; no
\* composed matrix cached from an earlier ambient or quaternion is published.
C1_NeverStale ==
    JustPublished => modelView.matrix = Fresh(Top.superXform, node[Top.node].q)

\* C2: when a node's render step returns, the Matrix Stack again holds the
\* {matrix, fixed} pair that was current when that render step began.
C2_StackRestored ==
    [][(pc = "render" /\ Len(frames') = Len(frames) - 1)
          => modelView' = Top.superXform]_vars

\* a child has returned to a node that had published a different transform
\* than the child did
C2_Witness ==
    /\ pc = "render"
    /\ Len(frames) >= 1
    /\ Top.next > 1
    /\ modelView = Transform(node[Top.node].xform[1].matrix, node[Top.node].xform[1].fixed)
    /\ LET c == children(Top.node)[Top.next - 1]
       IN  /\ node[c].xform # None
           /\ node[c].xform[1].matrix # modelView.matrix

\* C3: when the recursion into a node's children raises, the node restores the
\* Matrix Stack to the transform it saved before the error reaches its caller.
C3_RestoredOnError ==
    [][(pc = "raise" /\ Len(frames') = Len(frames) - 1)
          => modelView' = Top.superXform]_vars

\* C4: a static node visited under a fixed ambient with instancing inactive is
\* at memoLevel 2 after its second visit, and the matrix it publishes on that
\* visit is the one recomputed from scratch from that visit's inputs.
C4_SecondVisitFresh ==
    (/\ JustPublished
     /\ nrender = 2
     /\ node[Top.node].fixedParams
     /\ Top.superXform.fixed
     /\ ~instancing)
        => /\ node[Top.node].memoLevel = 2
           /\ modelView.matrix = Fresh(Top.superXform, node[Top.node].q)

\* C5: while instancing() answers true on every visit, no node's memoLevel
\* exceeds 1.
C5_InstancingCapsMemoLevel ==
    \A n \in Nodes : node[n].memoLevel <= 1

\* after two instanced passes a static root under the fixed scene transform
\* is still at level 1
C5_Witness ==
    /\ pc = "idle"
    /\ nrender >= 2
    /\ node[Root].fixedParams
    /\ node[Root].xform # None
    /\ node[Root].memoLevel = 1


\* the mutator calls made on node n, in order
CallsOn(n) == SelectSeq(log, LAMBDA e : e.node = n)

\* the quaternion node n had when its constructor returned
Constructed(n) ==
    Quaternion(node[n].fixedParams, node[n].params, node[n].callback).node.q

\* fromAxisAngle of an argument, absent fields read as 0
ArgQuaternion(arg) ==
    SceneJS_math_angleAxisQuaternion(
        OrZero(arg.x), OrZero(arg.y), OrZero(arg.z), OrZero(arg.angle))

Mul(p, q) == SceneJS_math_mulQuaternions(p, q)

\* C6: rotate accumulates by left-multiplication: from q0, rotate(a) then
\* rotate(b) leaves fromAxisAngle(b) * (fromAxisAngle(a) * q0); the earlier
\* rotation is not replaced, and for non-commuting a, b the opposite call
\* order gives a different quaternion.
C6_RotateLeftMultiplies ==
    \A n \in Nodes :
        LET calls == CallsOn(n)
            q0 == Constructed(n)
        IN  (Len(calls) = 2 /\ calls[1].op = "rotate" /\ calls[2].op = "rotate")
            => LET a == ArgQuaternion(calls[1].arg)
                   b == ArgQuaternion(calls[2].arg)
               IN  /\ node[n].q = Mul(b, Mul(a, q0))
                   /\ Mul(a, b) # Mul(b, a)
                        => node[n].q # rotate(rotate([node[n] EXCEPT !.q = q0],
                                                     calls[2].arg), calls[1].arg).q

\* two non-commuting rotations applied to a node constructed with a rotation
C6_Witness ==
    \E n \in Nodes :
        LET calls == CallsOn(n)
        IN  /\ Len(calls) = 2
            /\ calls[1].op = "rotate"
            /\ calls[2].op = "rotate"
            /\ Constructed(n) # SceneJS_math_identityQuaternion
            /\ Mul(ArgQuaternion(calls[1].arg), ArgQuaternion(calls[2].arg))
                 # Mul(ArgQuaternion(calls[2].arg), ArgQuaternion(calls[1].arg))
            /\ node[n].q # ArgQuaternion(calls[2].arg)

C8_MutatorsResetMemoLevel ==
    [][log' # log => node'[log'[Len(log')].node].memoLevel = 0]_vars

\* a mutator has just reset a node that a render visit had promoted to level 2
C8_Witness ==
    /\ pc = "idle"
    /\ log # <<>>
    /\ LET n == log[Len(log)].node
       IN  /\ node[n].memoLevel = 0
           /\ node[n].xform # None
           /\ node[n].xform[1].fixed

\* the rotations rs left-multiplied onto q, in list order
RECURSIVE Accumulate(_, _)
Accumulate(q, rs) ==
    IF rs = <<>> THEN q
    ELSE Accumulate(Mul(ArgQuaternion(Head(rs)), q), Tail(rs))

\* C9: a static configuration {x, y, z, angle, rotations: [r1..rn]} constructs
\* the quaternion fromAxisAngle(rn) * ... * fromAxisAngle(r1) *
\* fromAxisAngle(x, y, z, angle), absent base fields read as 0; its matrix is
\* the product of the rotations' matrices, last rotation leftmost.
C9_ConstructionOrder ==
    \A n \in Nodes :
        (node[n].fixedParams /\ CallsOn(n) = <<>>)
        => LET p == node[n].params
               base == ArgQuaternion(ParamsAsArg(p))
               rs == IF p.rotations = None THEN <<>> ELSE p.rotations[1]
           IN  /\ node[n].q = Accumulate(base, rs)
               /\ Len(rs) = 2 /\ base = SceneJS_math_identityQuaternion
                    => SceneJS_math_newMat4FromQuaternion(node[n].q)
                         = SceneJS_math_mulMat4(
                               SceneJS_math_newMat4FromQuaternion(ArgQuaternion(rs[2])),
                               SceneJS_math_newMat4FromQuaternion(ArgQuaternion(rs[1])))

\* a node constructed from a base rotation and a rotations list
C9_Witness ==
    \E n \in Nodes :
        /\ log = <<>>
        /\ nrender = 0
        /\ node[n].fixedParams
        /\ Truthy(node[n].params.angle)
        /\ node[n].params.rotations # None
        /\ node[n].params.rotations[1] # <<>>
        /\ node[n].q # ArgQuaternion(ParamsAsArg(node[n].params))
        /\ node[n].q # SceneJS_math_identityQuaternion

\* the render step of node n has just published
Entered(n) ==
    /\ pc' = "render"
    /\ Len(frames') = Len(frames) + 1
    /\ frames'[Len(frames')].node = n

\* C10: a dynamic node whose callback returns only a rotations list applies,
\* on every render visit, that visit's rotations once and in list order on
\* top of the quaternion left by the earlier visits; nothing resets the
\* quaternion between visits.
C10_DynamicAccumulates ==
    [][\A n \in Nodes :
          (~node[n].fixedParams /\ node[n].callback = "rotations")
          => /\ Entered(n)
                  => node'[n].q = Accumulate(node[n].q, data'.rotations[1])
             /\ (~Entered(n) /\ log' = log /\ pc' \in {"idle", "render"})
                  => node'[n].q = node[n].q]_vars

\* a second visit has added its rotations to those of the first
C10_Witness ==
    /\ JustPublished
    /\ nrender >= 2
    /\ log = <<>>
    /\ ~node[Top.node].fixedParams
    /\ node[Top.node].callback = "rotations"
    /\ data.rotations[1] # <<>>
    /\ node[Top.node].q # Accumulate(SceneJS_math_identityQuaternion, data.rotations[1])
    /\ node[Top.node].q # SceneJS_math_identityQuaternion

\* the callback's result defines a base rotation field
DefinesBase(params) ==
    params.x # None \/ params.y # None \/ params.z # None \/ params.angle # None

\* C11: a dynamic node whose callback result defines base rotation fields
\* (whatever their values: a zero angle, an axis given only by z) is reset to
\* that base rotation on every render visit before the returned rotations are
\* applied, so that the rotations of earlier visits do not accumulate.
C11_BaseResetsEveryVisit ==
    [][\A n \in Nodes :
          (/\ ~node[n].fixedParams
           /\ node[n].callback = "all"
           /\ Entered(n)
           /\ DefinesBase(data'))
          => node'[n].q =
                 Accumulate(ArgQuaternion(ParamsAsArg(data')),
                            IF data'.rotations = None THEN <<>> ELSE data'.rotations[1])]_vars


\* a node after one logged mutator call
Call(nd, e) ==
    IF e.threw THEN nd
    ELSE CASE e.op = "setRotation" -> setRotation(nd, e.arg)
           [] e.op = "rotate" -> rotate(nd, e.arg)
           [] e.op = "normalize" -> normalize(nd)

\* a node after the logged mutator calls, in order
RECURSIVE Replay(_, _)
Replay(nd, calls) ==
    IF calls = <<>> THEN nd ELSE Replay(Call(nd, Head(calls)), Tail(calls))

\* C12: a static node's configuration is applied exactly once, at
\* construction: render visits never modify the quaternion, which after any
\* number of visits is the constructed value composed with the explicit
\* mutator calls only.
C12_StaticConfiguredOnce ==
    \A n \in Nodes :
        node[n].fixedParams
        => node[n].q =
               Replay(Quaternion(TRUE, node[n].params, node[n].callback).node,
                      CallsOn(n)).q

\* a static node with a rotations list, rotated by the application between
\* two render calls, has been visited at level 0 by both
C12_Witness ==
    \E n \in Nodes :
        /\ pc = "idle"
        /\ nrender >= 2
        /\ node[n].fixedParams
        /\ node[n].params.rotations # None
        /\ CallsOn(n) # <<>>
        /\ node[n].memoLevel >= 1
        /\ node[n].q # Constructed(n)


\* C13 as stated: a static node has memoLevel 1 immediately after
\* construction, before its first render visit, also when its configuration
\* holds base rotation fields or a rotations list.
C13_StaticStartsAtLevel1 ==
    \A n \in Nodes :
        (node[n].fixedParams /\ nrender = 0 /\ log = <<>>)
        => node[n].memoLevel = 1

\* C13 amended: a static node has memoLevel 0 from construction until its
\* first render visit (its local matrix is not computed before that visit);
\* the visit leaves it at memoLevel 1 or 2.
C13_StaticStartsAtLevel0 ==
    \A n \in Nodes :
        node[n].fixedParams
        => /\ node[n].mat = None => node[n].memoLevel = 0
           /\ (JustPublished /\ Top.node = n) => node[n].memoLevel >= 1

\* the first visit of a static node constructed with a rotations list or a
\* base rotation has just published, under instancing, and left it at level 1
C13_Witness ==
    /\ JustPublished
    /\ nrender = 1
    /\ log = <<>>
    /\ node[Top.node].fixedParams
    /\ node[Top.node].q # SceneJS_math_identityQuaternion
    /\ node[Top.node].mat # None
    /\ node[Top.node].memoLevel = 1


C15_EveryVisitReturns ==
    [][/\ pc = "render" => pc' \in {"render", "idle"}
       /\ nrender' # nrender => pc' = "render"
       /\ Len(frames') < Len(frames) => modelView' = Top.superXform]_vars

\* an all-zero axis with a non-zero angle
IsDegenerate(arg) ==
    /\ arg.given
    /\ OrZero(arg.x) = 0 /\ OrZero(arg.y) = 0 /\ OrZero(arg.z) = 0
    /\ OrZero(arg.angle) # 0

\* the matrix node n would publish if visited now under the scene's transform
WouldPublish(n) == render(node[n], SceneTransform, FALSE, NoData).published.matrix

\* no entry of the matrix is NaN
NoNaN(matrix) == \A i, j \in 1..4 : matrix[i][j] # NaN

\* C16: an all-zero axis with a non-zero angle, given to setRotation, rotate
\* or the configuration, counts as the identity rotation and raises no
\* error: setRotation leaves the identity, rotate leaves the quaternion as it
\* was, a degenerate base is the identity under the rotations list; and the
\* matrix then published holds no NaN.
C16_DegenerateIsIdentity ==
    \A n \in Nodes :
        LET calls == CallsOn(n)
            last == calls[Len(calls)]
            new == Quaternion(node[n].fixedParams, node[n].params, node[n].callback).node
            p == node[n].params
        IN  /\ (calls # <<>> /\ IsDegenerate(last.arg))
                => /\ ~last.threw
                   /\ last.op = "setRotation"
                        => node[n].q = SceneJS_math_identityQuaternion
                   /\ last.op = "rotate"
                        => node[n].q = Replay(new, SubSeq(calls, 1, Len(calls) - 1)).q
                   /\ NoNaN(WouldPublish(n))
            /\ (calls = <<>> /\ node[n].fixedParams /\ IsDegenerate(ParamsAsArg(p)))
                => /\ node[n].q = Accumulate(SceneJS_math_identityQuaternion,
                                             IF p.rotations = None THEN <<>>
                                             ELSE p.rotations[1])
                   /\ NoNaN(WouldPublish(n))

\* a degenerate rotate on a node that holds a rotation, and a degenerate
\* setRotation on a node that held one
C16_Witness ==
    \E n, m \in Nodes :
        /\ n # m
        /\ Len(CallsOn(n)) = 1
        /\ CallsOn(n)[1].op = "rotate"
        /\ IsDegenerate(CallsOn(n)[1].arg)
        /\ node[n].q # SceneJS_math_identityQuaternion
        /\ Len(CallsOn(m)) = 1
        /\ CallsOn(m)[1].op = "setRotation"
        /\ IsDegenerate(CallsOn(m)[1].arg)
        /\ Constructed(m) # SceneJS_math_identityQuaternion
        /\ node[m].q = SceneJS_math_identityQuaternion
        /\ WouldPublish(m) = SceneJS_math_identityMat4


\* a given argument with a non-numeric field
IsMalformed(arg) ==
    arg.given /\ (arg.x = Text \/ arg.y = Text \/ arg.z = Text \/ arg.angle = Text)

\* C17: a non-numeric x, y, z or angle given to setRotation, rotate or the
\* node configuration is reported as an error where the configuration is
\* applied (the call, or the construction, raises) and leaves the quaternion
\* as it was.
C17_MalformedReported ==
    \A n \in Nodes :
        LET calls == CallsOn(n)
            last == calls[Len(calls)]
            new == Quaternion(node[n].fixedParams, node[n].params, node[n].callback)
        IN  /\ (calls # <<>> /\ IsMalformed(last.arg))
                => /\ last.threw
                   /\ node[n].q = Replay(new.node, SubSeq(calls, 1, Len(calls) - 1)).q
            /\ (node[n].fixedParams /\ IsMalformed(ParamsAsArg(node[n].params)))
                => new.threw


\* C18: rotate called with no argument applies the default rotation
\* {x: 0, y: 0, z: 0, angle: 0}: the call completes without an error (and so
\* returns the node), and the node's rotation is what the calls before it left.
C18_RotateDefaults ==
    \A n \in Nodes :
        LET calls == CallsOn(n)
            last == calls[Len(calls)]
            new == Quaternion(node[n].fixedParams, node[n].params, node[n].callback).node
        IN  (calls # <<>> /\ last.op = "rotate" /\ ~last.arg.given)
            => /\ ~last.threw
               /\ node[n].q = Replay(new, SubSeq(calls, 1, Len(calls) - 1)).q


\* C19: the node's quaternion is a unit quaternion in every reachable state:
\* after construction and after any sequence of setRotation and rotate calls,
\* whatever the length of the axes given (the stored components are twice
\* the quaternion's, so the stored squared magnitude is 4).
C19_UnitQuaternion ==
    \A n \in Nodes : Norm2(node[n].q) = 4

\* setRotation about an axis of length 2, then rotate about an axis of
\* length sqrt(3)
C19_Witness ==
    \E n \in Nodes :
        LET calls == CallsOn(n)
        IN  /\ Len(calls) = 2
            /\ calls[1].op = "setRotation"
            /\ OrZero(calls[1].arg.x) = 2
            /\ calls[2].op = "rotate"
            /\ OrZero(calls[2].arg.x) + OrZero(calls[2].arg.y) + OrZero(calls[2].arg.z) = 3
            /\ node[n].q # SceneJS_math_identityQuaternion
            /\ node[n].q = Mul(ArgQuaternion(RD), ArgQuaternion(RX))


\* C20: normalize is idempotent: a node normalized once or twice holds the
\* same quaternion, the normalization of the non-zero quaternion it had (the
\* nodes start from one quaternion; a node never called still holds it).
C20_NormalizeIdempotent ==
    \A n, m \in Nodes :
        (CallsOn(n) # <<>> /\ CallsOn(m) = <<>>)
        => node[n].q = SceneJS_math_normalizeQuaternion(node[m].q)

\* a node normalized twice from a quaternion that was not of unit length
C20_Witness ==
    \E n, m \in Nodes :
        /\ Len(CallsOn(n)) = 2
        /\ CallsOn(m) = <<>>
        /\ Norm2(node[m].q) # 4
        /\ Norm2(node[n].q) = 4
        /\ node[n].q # node[m].q


\* the argument names an axis that is not all zero
NonZeroAxis(arg) ==
    arg.given /\ (OrZero(arg.x) # 0 \/ OrZero(arg.y) # 0 \/ OrZero(arg.z) # 0)

\* two axis-angle objects whose rotation matrices are the same
SameRotation(a, b) ==
    SceneJS_math_newMat4FromQuaternion(ArgQuaternion(a))
        = SceneJS_math_newMat4FromQuaternion(ArgQuaternion(b))

\* C21: round trip: getRotation() right after setRotation(cfg), cfg with a
\* non-zero axis, returns an axis and angle of the same rotation as cfg: the
\* same rotation matrix, the axis and the angle themselves being free to
\* differ by length or sign.
C21_RoundTrip ==
    \A i \in 2..Len(log) :
        (/\ log[i].op = "getRotation"
         /\ log[i - 1].op = "setRotation"
         /\ log[i - 1].node = log[i].node
         /\ NonZeroAxis(log[i - 1].arg))
        => /\ SameRotation(log[i].arg, log[i - 1].arg)
           /\ NonZeroAxis(log[i].arg)

\* a rotation by 180 degrees about an axis of length 2 was set and read back
\* about the unit axis
C21_Witness ==
    /\ Len(log) = 2
    /\ log[1].op = "setRotation"
    /\ log[1].node = log[2].node
    /\ log[1].arg.x = Some(2)
    /\ log[2].op = "getRotation"
    /\ log[2].arg = AxisAngle(Some(1), Some(0), Some(0), Some(180))
    /\ node[log[2].node].q # SceneJS_math_identityQuaternion


\* C22: in the part_001 revision, the top-level x, y, z and angle of a static
\* configuration define the base rotation: after construction the quaternion
\* is the rotations list applied on top of fromAxisAngle(x, y, z, angle).
C22_TopLevelBase ==
    \A n \in Nodes :
        CallsOn(n) = <<>>
        => LET p == node[n].params
           IN  node[n].q = Accumulate(ArgQuaternion(ParamsAsArg(p)),
                                      IF p.rotations = None THEN <<>>
                                      ELSE p.rotations[1])


\* C23: on every render visit on which memoLevel is below 2 after the
\* local-matrix step, the node recomputes its composed transform from the
\* ambient state read on that visit: matrix = superMatrix x localMatrix and
\* fixed = superFixed AND fixedParams AND NOT instancing(), instancing() as
\* it answers on that visit; and that is the transform it publishes.
C23_ComposedRecomputed ==
    [][\A n \in Nodes :
          (Entered(n) /\ renderLocal(node[n], data').node.memoLevel < 2)
          => LET super == frames'[Len(frames')].superXform
                 xform == node'[n].xform[1]
             IN  /\ node'[n].mat # None
                 /\ xform.localMatrix = node'[n].mat[1]
                 /\ xform.matrix = SceneJS_math_mulMat4(super.matrix, node'[n].mat[1])
                 /\ xform.fixed = (super.fixed /\ node[n].fixedParams /\ ~instancing')
                 /\ modelView' = Transform(xform.matrix, xform.fixed)]_vars

\* a static child of a dynamic root is visited at level 1 by a second render
\* call, the root's matrix having changed since the first
C23_Witness ==
    /\ JustPublished
    /\ nrender = 2
    /\ Top.node # Root
    /\ node[Top.node].memoLevel = 1
    /\ ~Top.superXform.fixed
    /\ Top.superXform.matrix # SceneJS_math_identityMat4
    /\ node[Top.node].q # SceneJS_math_identityQuaternion
    /\ modelView.matrix = Fresh(Top.superXform, node[Top.node].q)


\* C24: memoLevel becomes 2 only in a render visit of the node, at the
\* promotion test, where it was 1 and the fixed flag just computed is true;
\* hence wherever memoLevel is 2 the node is statically configured and its
\* cached composed transform is marked fixed (a dynamic node is never
\* promoted, although the promotion test does not mention fixedParams).
C24_Level2IsFixed ==
    [][\A n \in Nodes :
          /\ node'[n].memoLevel = 2
               => /\ node'[n].fixedParams
                  /\ node'[n].xform # None
                  /\ node'[n].xform[1].fixed
          /\ (node'[n].memoLevel = 2 /\ node[n].memoLevel # 2)
               => /\ Entered(n)
                  /\ renderLocal(node[n], data').node.memoLevel = 1
                  /\ frames'[Len(frames')].superXform.fixed
                  /\ ~instancing'
          /\ ~node[n].fixedParams => node'[n].memoLevel = 0]_vars

\* a static child has just been promoted under its promoted parent, while a
\* render call under instancing had left it at level 1
C24_Witness ==
    /\ JustPublished
    /\ nrender = 2
    /\ log = <<>>
    /\ ~instancing
    /\ Top.node # Root
    /\ node[Top.node].memoLevel = 2
    /\ node[Root].memoLevel = 2
    /\ node[Top.node].xform[1].fixed
    /\ \E m \in Nodes : node[m].memoLevel = 1 /\ ~node[m].xform[1].fixed


\* the cached local matrix of the node is the matrix of its quaternion
LocalMatrixValid(nd) ==
    nd.mat # None /\ nd.mat[1] = SceneJS_math_newMat4FromQuaternion(nd.q)

\* C25 as stated: in every reachable state the cached localMatrix equals
\* toMatrix(current quaternion) if and only if memoLevel >= 1.
C25_ValidIffLevel1 ==
    \A n \in Nodes : LocalMatrixValid(node[n]) <=> node[n].memoLevel >= 1

\* C25 amended: memoLevel >= 1 implies that the cached localMatrix equals
\* toMatrix(current quaternion), and that the cached composed transform
\* holds that local matrix; at memoLevel 0 the cached matrix may be absent,
\* stale, or current (a dynamic node stays at level 0 after its visit).
C25_Level1ImpliesValid ==
    \A n \in Nodes :
        node[n].memoLevel >= 1
        => /\ LocalMatrixValid(node[n])
           /\ node[n].xform # None
           /\ node[n].xform[1].localMatrix = node[n].mat[1]

\* a static node rotated by the application after a render call is at level
\* 1 or 2 again, after a second render call, with the matrix of the rotated
\* quaternion; a dynamic node is at level 0 with a current matrix
C25_Witness ==
    \E n, m \in Nodes :
        /\ pc = "idle"
        /\ nrender = 2
        /\ CallsOn(n) # <<>>
        /\ CallsOn(n)[1].op = "rotate"
        /\ node[n].q # Constructed(n)
        /\ node[n].memoLevel >= 1
        /\ LocalMatrixValid(node[n])
        /\ ~node[m].fixedParams
        /\ node[m].memoLevel = 0
        /\ LocalMatrixValid(node[m])


\* the step is a mutator call on node n
Mutated(n) == log' # log /\ log'[Len(log')].node = n

\* C26: memoLevel is 0, 1 or 2, and it changes only in these ways: to 0 by a
\* mutator call on the node; from 0 to 1 in the local-matrix step of a
\* render visit of the node, if statically configured; from 1 to 2 by the
\* promotion of such a visit.  A visit that takes a node from 0 to 2 has
\* passed through 1 after its local-matrix step; no step takes a node from
\* 2 to 1; a dynamic node's re-configuration leaves it at 0.
C26_MemoLevelTransitions ==
    [][\A n \in Nodes :
          LET before == node[n].memoLevel
              after == node'[n].memoLevel
              local == renderLocal(node[n], data').node.memoLevel
          IN  /\ before \in {0, 1, 2} /\ after \in {0, 1, 2}
              /\ Mutated(n) => after = 0
              /\ (~Mutated(n) /\ after # before)
                   => /\ Entered(n)
                      /\ node[n].fixedParams
                      /\ after > before
                      /\ before = 0 => local = 1
                      /\ after = 2 => local = 1
              /\ (Entered(n) /\ ~node[n].fixedParams) => (before = 0 /\ after = 0)
              /\ before = 2 => after \in {2, 0}]_vars

\* a static node was promoted by a render call, reset by a mutator call,
\* and promoted again by a second render call
C26_Witness ==
    \E n \in Nodes :
        /\ pc = "idle"
        /\ nrender = 2
        /\ Len(CallsOn(n)) = 1
        /\ node[n].fixedParams
        /\ node[n].memoLevel = 2
        /\ node[n].mat # None
        /\ node[n].mat[1] = getMatrix(Replay(Quaternion(TRUE, node[n].params, "none").node,
                                             CallsOn(n)))


\* C27: a render visit that starts with memoLevel 2 leaves the node's
\* quaternion, localMatrix, composedTransform and memoLevel as they were and
\* publishes the stored composedTransform as it is; neither instancing() nor
\* the ambient transform enters the result (no instancing() call, no matrix
\* product): the visit would end the same under any of them.
C27_Level2VisitReuses ==
    [][\A n \in Nodes :
          (Entered(n) /\ node[n].memoLevel = 2)
          => /\ node'[n] = node[n]
             /\ modelView' = Transform(node[n].xform[1].matrix, node[n].xform[1].fixed)
             /\ \A inst \in BOOLEAN, super \in {SceneTransform, modelView,
                                                 Transform(modelView.matrix, FALSE)} :
                   LET r == render(node[n], super, inst, data')
                   IN  /\ r.node = node[n]
                       /\ ~r.threw
                       /\ r.published = modelView']_vars

\* a child promoted by an earlier render call is visited under instancing
\* and under an ambient matrix that has changed since, and publishes the
\* transform it had stored, marked fixed
C27_Witness ==
    /\ JustPublished
    /\ instancing
    /\ Top.node # Root
    /\ node[Top.node].memoLevel = 2
    /\ modelView.fixed
    /\ ~Top.superXform.fixed
    /\ modelView.matrix # Fresh(Top.superXform, node[Top.node].q)


\* the {matrix, fixed} of the composed transform node n has stored
Stored(n) == Transform(node[n].xform[1].matrix, node[n].xform[1].fixed)

\* C28: during a render visit of node N in which no error is raised, every
\* child of N finds on the Matrix Stack, when its own render step begins,
\* the {matrix, fixed} that N published, however many sibling subtrees were
\* rendered before it and however deep they were.
C28_ChildReadsParent ==
    [][(pc = "render" /\ Len(frames') = Len(frames) + 1)
          => /\ modelView = Stored(Top.node)
             /\ frames'[Len(frames')].superXform = Stored(Top.node)
             /\ \E j \in 1..Len(children(Top.node)) :
                   /\ j = Top.next
                   /\ frames'[Len(frames')].node = children(Top.node)[j]]_vars

\* the second child of the root has begun its render step after its sibling
\* had published a transform of its own
C28_Witness ==
    /\ JustPublished
    /\ Len(frames) = 2
    /\ frames[1].next = 3
    /\ Top.node = children(Root)[2]
    /\ Top.superXform = Stored(Root)
    /\ Top.superXform.matrix # SceneJS_math_identityMat4
    /\ node[children(Root)[1]].xform # None
    /\ Stored(children(Root)[1]) # Stored(Root)
    /\ modelView # Stored(Root)


\* the step is the render step of node m, begun by a render call or by the
\* _renderNodes of m's parent (it publishes, or its configuration raises)
Visited(m) ==
    /\ log' = log
    /\ \/ nrender' # nrender /\ m = Root
       \/ /\ nrender' = nrender
          /\ pc = "render"
          /\ Top.next <= Len(children(Top.node))
          /\ m = children(Top.node)[Top.next]

\* C29: caches are node-local: a call of setRotation, rotate or normalize on
\* node N and the render step of N change the fields of N only (quaternion,
\* memoLevel, localMatrix, composedTransform); another node changes only in
\* its own render step or by a call on itself.  In particular a mutator call
\* on an ancestor leaves the memoLevel and the cached composedTransform of
\* every descendant as they were.
C29_CachesNodeLocal ==
    [][\A m \in Nodes :
          /\ node'[m] # node[m] => (Mutated(m) \/ Visited(m))
          /\ (log' # log /\ ~Mutated(m))
               => /\ node'[m].memoLevel = node[m].memoLevel
                  /\ node'[m].xform = node[m].xform
          /\ /\ node'[m].fixedParams = node[m].fixedParams
             /\ node'[m].params = node[m].params
             /\ node'[m].callback = node[m].callback]_vars

\* a mutator call on the root has changed its quaternion after a render
\* call; its children still are at level 2 with the transforms they stored
C29_Witness ==
    /\ pc = "idle"
    /\ nrender = 1
    /\ Len(log) = 1
    /\ log[1].node = Root
    /\ node[Root].memoLevel = 0
    /\ node[Root].q # Constructed(Root)
    /\ \A m \in Nodes \ {Root} :
          /\ node[m].memoLevel = 2
          /\ node[m].xform[1].matrix = Fresh(Stored(Root), node[m].q)
          /\ node[m].xform[1].matrix
                 # SceneJS_math_mulMat4(getMatrix(node[Root]), getMatrix(node[m]))


\* the step is the first render visit of node n since a mutator call on it:
\* a static node is at level 0 from the call to that visit; a dynamic node
\* is always at level 0, and its visit by the first render call follows
\* every call made before
NextVisitAfterCall(n) ==
    /\ Visited(n)
    /\ CallsOn(n) # <<>>
    /\ node[n].memoLevel = 0
    /\ node[n].fixedParams \/ nrender' = 1

\* C30 as stated: after a call of setRotation, rotate or normalize on a node,
\* from any memoLevel, the node's next render visit publishes a transform
\* recomputed from the quaternion the call left: localMatrix =
\* toMatrix(that quaternion), matrix = ambient x localMatrix.
C30_NextVisitUsesCallResult ==
    [][\A n \in Nodes :
          (NextVisitAfterCall(n) /\ Entered(n))
          => /\ node'[n].xform[1].localMatrix = SceneJS_math_newMat4FromQuaternion(node[n].q)
             /\ modelView'.matrix
                    = Fresh(frames'[Len(frames')].superXform, node[n].q)]_vars

\* C30 amended: after a call of setRotation, rotate or normalize on a node,
\* from any memoLevel, the node's next render visit recomputes localMatrix
\* and composedTransform from the quaternion the node holds once the visit's
\* configuration step is done: for a static node that is the quaternion the
\* call left; for a dynamic node it is what the callback's configuration,
\* applied by that visit, makes of it, and if that configuration raises the
\* visit publishes nothing.
C30_NextVisitRecomputes ==
    [][\A n \in Nodes :
          NextVisitAfterCall(n)
          => \E d \in (IF nrender' # nrender THEN RenderData ELSE {data}) :
                LET cfg == init(node[n], getParams(node[n], d))
                IN  /\ Entered(n) => d = data'
                    /\ node[n].fixedParams => (Entered(n) /\ node'[n].q = node[n].q)
                    /\ ~node[n].fixedParams
                         => /\ node'[n].q = cfg.node.q
                            /\ Entered(n) <=> ~cfg.threw
                    /\ Entered(n)
                         => /\ node'[n].mat
                                   = Some(SceneJS_math_newMat4FromQuaternion(node'[n].q))
                            /\ node'[n].xform[1].localMatrix = node'[n].mat[1]
                            /\ modelView'.matrix
                                   = Fresh(frames'[Len(frames')].superXform, node'[n].q)]_vars

\* a static child promoted by a render call and then rotated by the
\* application has been visited again: it publishes the matrix of the
\* rotated quaternion, which is not the one it had stored
C30_Witness ==
    /\ JustPublished
    /\ nrender = 2
    /\ Top.node # Root
    /\ node[Top.node].fixedParams
    /\ Len(CallsOn(Top.node)) = 1
    /\ CallsOn(Top.node)[1].op = "rotate"
    /\ node[Top.node].memoLevel = 2
    /\ node[Top.node].q # Constructed(Top.node)
    /\ modelView.matrix = Fresh(Top.superXform, node[Top.node].q)
    /\ modelView.matrix # Fresh(Top.superXform, Constructed(Top.node))


\* C31: a dynamically configured node is at memoLevel 0 after every render
\* visit (it never reaches 1 or 2); every visit that publishes has recomputed
\* its local matrix from the quaternion the visit's configuration left and
\* its composed matrix from the ambient read on that visit; and every
\* transform it publishes has fixed = false.
C31_DynamicNeverMemoised ==
    [][\A n \in Nodes :
          ~node[n].fixedParams
          => /\ node[n].memoLevel = 0 /\ node'[n].memoLevel = 0
             /\ Entered(n)
                  => LET super == frames'[Len(frames')].superXform
                     IN  /\ node'[n].mat
                               = Some(SceneJS_math_newMat4FromQuaternion(node'[n].q))
                         /\ node'[n].xform[1].localMatrix = node'[n].mat[1]
                         /\ node'[n].xform[1].matrix
                               = SceneJS_math_mulMat4(super.matrix, node'[n].mat[1])
                         /\ ~node'[n].xform[1].fixed
                         /\ modelView'
                               = Transform(Fresh(super, node'[n].q), FALSE)]_vars

\* a dynamic root is visited a second time under the fixed scene transform,
\* instancing inactive: it is at level 0 and publishes a new matrix, not fixed
C31_Witness ==
    /\ JustPublished
    /\ Top.node = Root
    /\ nrender = 2
    /\ ~node[Root].fixedParams
    /\ ~instancing
    /\ Top.superXform.fixed
    /\ node[Root].memoLevel = 0
    /\ ~modelView.fixed
    /\ modelView.matrix # SceneJS_math_identityMat4
    /\ \E m \in Nodes \ {Root} :
          /\ node[m].xform # None
          /\ node[m].xform[1].matrix # Fresh(modelView, node[m].q)


\* the nodes above n in the scene
Ancestors(n) == { m \in Nodes : m < n /\ \E k \in 1..NumNodes : n \div (2 ^ k) = m }

\* C32: a static node not yet at level 2 that reads an ambient transform
\* with fixed = false is not promoted by that visit and publishes a composed
\* matrix recomputed from that ambient, not fixed; so a static node that
\* finds fixed = false on every visit never reaches memoLevel 2, and no
\* descendant of a dynamically configured node ever does: each reads a
\* transform that is not fixed.
C32_UnfixedAmbientBlocksPromotion ==
    [][\A n \in Nodes :
          LET super == frames'[Len(frames')].superXform
          IN  /\ (node[n].fixedParams /\ Entered(n) /\ ~super.fixed /\ node[n].memoLevel < 2)
                   => /\ node'[n].memoLevel = 1
                      /\ node'[n].xform[1].matrix = Fresh(super, node'[n].q)
                      /\ ~node'[n].xform[1].fixed
                      /\ modelView' = Stored(n)'
              /\ (\E a \in Ancestors(n) : ~node[a].fixedParams)
                   => /\ node[n].memoLevel <= 1 /\ node'[n].memoLevel <= 1
                      /\ Entered(n) => ~super.fixed]_vars

\* two render calls have visited the static children of a dynamic root: they rest at level 1 with transforms composed
\* with the root's latest matrix, not fixed
C32_Witness ==
    /\ pc = "idle"
    /\ nrender = 2
    /\ log = <<>>
    /\ ~node[Root].fixedParams
    /\ node[Root].xform # None
    /\ Stored(Root).matrix # SceneJS_math_identityMat4
    /\ \A m \in Nodes \ {Root} :
          /\ node[m].fixedParams
          /\ node[m].memoLevel = 1
          /\ Stored(m) = Transform(Fresh(Stored(Root), node[m].q), FALSE)


\* C33: on a render visit during which instancing() answers true, the
\* transform the node publishes has fixed = false and its matrix is the
\* ambient matrix read on that visit times the node's local matrix, also
\* when an earlier visit without instancing had promoted the node to
\* memoLevel 2.
C33_InstancedVisitUnfixed ==
    (JustPublished /\ instancing)
    => /\ ~modelView.fixed
       /\ modelView.matrix = Fresh(Top.superXform, node[Top.node].q)


\* the step is a call of the getter op on node n
Got(op, n) ==
    /\ Len(log') = Len(log) + 1
    /\ log'[Len(log')].op = op
    /\ log'[Len(log')].node = n

\* C34: getRotation and getMatrix are read-only: a call leaves the node's
\* quaternion, memoLevel, localMatrix and composedTransform (and every other
\* node) as they were; getMatrix returns toMatrix(current quaternion),
\* computed afresh, so it shows the latest mutator call even while memoLevel
\* is 0 and the cached localMatrix is out of date.
C34_GettersReadOnly ==
    [][\A n \in Nodes :
          /\ (Got("getMatrix", n) \/ Got("getRotation", n))
               => /\ node' = node
                  /\ modelView' = modelView
          /\ Got("getMatrix", n)
               => log'[Len(log')].arg = SceneJS_math_newMat4FromQuaternion(node[n].q)
          /\ Got("getRotation", n)
               => ArgQuaternion(log'[Len(log')].arg) = node[n].q]_vars

\* a node rendered and then rotated by the application is at level 0 with
\* the local matrix of the old quaternion; getMatrix has returned the matrix
\* of the new one
C34_Witness ==
    /\ Len(log) = 2
    /\ log[1].op = "rotate"
    /\ log[2].op = "getMatrix"
    /\ log[2].node = log[1].node
    /\ LET nd == node[log[2].node]
       IN  /\ nd.memoLevel = 0
           /\ nd.mat # None
           /\ nd.mat[1] # log[2].arg
           /\ log[2].arg = SceneJS_math_newMat4FromQuaternion(nd.q)


\* C35: over the render visits of a static node, with no mutator call on it
\* in between, memoLevel never decreases: a node at level 2 is at level 2
\* after every later visit, whatever the ambient fixed flag and instancing()
\* are on that visit; the level goes down only to 0 and only by a call of
\* setRotation, rotate or normalize on the node.
C35_MemoLevelMonotone ==
    [][\A n \in Nodes :
          node[n].fixedParams
          => /\ ~Mutated(n) => node'[n].memoLevel >= node[n].memoLevel
             /\ (Visited(n) /\ node[n].memoLevel = 2)
                  => /\ Entered(n)
                     /\ node'[n].memoLevel = 2
             /\ node'[n].memoLevel < node[n].memoLevel
                  => /\ Mutated(n)
                     /\ log'[Len(log')].op \in {"setRotation", "rotate", "normalize"}
                     /\ node'[n].memoLevel = 0]_vars

\* a child promoted by the first render call and never touched by the
\* application is visited by the second under instancing and under an
\* ambient that is not fixed (its parent was rotated): it is still at level 2
C35_Witness ==
    /\ JustPublished
    /\ nrender = 2
    /\ instancing
    /\ Top.node # Root
    /\ ~Top.superXform.fixed
    /\ CallsOn(Top.node) = <<>>
    /\ CallsOn(Root) # <<>>
    /\ node[Top.node].fixedParams
    /\ node[Top.node].memoLevel = 2


\* the base rotation the part_001 revision constructs from a configuration
Part001Base(p) ==
    IF p.q = None \/ p.q[1].w # None
    THEN SceneJS_math_identityQuaternion
    ELSE SceneJS_math_angleAxisQuaternion(
             OrZero(p.q[1].x), OrZero(p.q[1].y), OrZero(p.q[1].z),
             IF p.q[1].angle = None THEN NaN ELSE p.q[1].angle[1])

C37_FactoryAsConstructor ==
    \A n \in Nodes :
        LET new == Quaternion(node[n].fixedParams, node[n].params, node[n].callback).node
            same == Replay(new, CallsOn(n))
        IN  /\ node[n].q = same.q
            /\ node[n].memoLevel = same.memoLevel
            /\ node[n].mat = same.mat
            /\ node[n].xform = same.xform

\* a node made by the factory from a rotations list of two rotations and no
\* base rotation holds the two rotations, applied once
C37_Witness ==
    \E n \in Nodes :
        /\ CallsOn(n) = <<>>
        /\ node[n].fixedParams
        /\ ~initSetsRotation(node[n].params)
        /\ node[n].params.rotations # None
        /\ Len(node[n].params.rotations[1]) = 2
        /\ node[n].q = Accumulate(SceneJS_math_identityQuaternion,
                                  node[n].params.rotations[1])
        /\ node[n].q # Accumulate(node[n].q, node[n].params.rotations[1])
        /\ node[n].memoLevel = 0
        /\ node[n].mat = None


=============================================================================
